---- MODULE Spec2Model ----
(***************************************************************************)
(* A model of PeakConverter.py: the Transcript class (transcript-local     *)
(* exon coordinates and coding landmarks), build_transcriptome,            *)
(* get_parameters, the two loops of gen2tr around bedtools intersect, and  *)
(* choose_selected_cufflinks.                                              *)
(*                                                                         *)
(* Python lists and deques are sequences; Python index k is index k+1.     *)
(* Python's None is the string "None".  A line of the table file is its    *)
(* tab-separated fields after the bin column, the numbers and the exon     *)
(* lists already read as such: name, chrom, strand, txStart, txEnd,        *)
(* cdsStart, cdsEnd, exonCount, exonStarts, exonEnds, score, name2.        *)
(***************************************************************************)
EXTENDS Integers, Sequences, FiniteSets, TLC

VARIABLES
    pc,            \* position of the run
    table_file,    \* the lines of the annotation table file
    table_array,   \* read_table_into_array's result: the lines to build from
    tx_dict,       \* build_transcriptome's dictionary: key -> list of Transcript
    parameters,    \* get_parameters' rows
    temp_bed_key,  \* gen2tr: the exon key file handed to bedtools
    intersection,  \* gen2tr: the lines bedtools intersect -wo gives back
    temp_tr_bed,   \* gen2tr: the transcript-local segments written
    pos,           \* how many lines the running loop has consumed
    gene_dict,     \* choose_selected_cufflinks: isoform -> (gene, coding)
    iso_dict,      \* choose_selected_cufflinks: gene -> incumbent
    c,             \* choose_selected_cufflinks: unmatched isoforms counted
    ret,           \* choose_selected_cufflinks: the returned set
    matched,       \* history: the matched expression records read, in order
    nUnmatched     \* history: how many unmatched expression records were read

vars == <<pc, table_file, table_array, tx_dict, parameters, temp_bed_key, intersection,
          temp_tr_bed, pos, gene_dict, iso_dict, c, ret, matched, nUnmatched>>

txVars == <<table_file, table_array, tx_dict, parameters, temp_bed_key, intersection, temp_tr_bed, pos>>
selVars == <<gene_dict, iso_dict, c, ret, matched, nUnmatched>>

(***************************************************************************)
(* Bounds of the model.                                                    *)
(***************************************************************************)
\* genomic coordinates are 0..MaxCoord
MaxCoord == 6
\* a transcript has 1..MaxExons exons
MaxExons == 3
\* at most MaxMatched matched expression records are read
MaxMatched == 3

(***************************************************************************)
(* Helpers on sequences.                                                   *)
(***************************************************************************)
\* reversed(l)
Reversed(l) == [k \in 1..Len(l) |-> l[Len(l) + 1 - k]]

SetMin(S) == CHOOSE x \in S : \A y \in S : x <= y

SetMax(S) == CHOOSE x \in S : \A y \in S : y <= x

Range(l) == {l[k] : k \in 1..Len(l)}

\* the elements of a set of integers, ascending
RECURSIVE Ascending(_)
Ascending(S) ==
    IF S = {} THEN <<>>
    ELSE <<SetMin(S)>> \o Ascending(S \ {SetMin(S)})

\* insertion of x into an ascending list, after its equals
RECURSIVE Insert(_, _)
Insert(x, l) ==
    IF l = <<>> THEN <<x>>
    ELSE IF x < Head(l) THEN <<x>> \o l
    ELSE <<Head(l)>> \o Insert(x, Tail(l))

\* sorted(l)
RECURSIVE sorted(_)
sorted(l) ==
    IF l = <<>> THEN <<>>
    ELSE Insert(l[Len(l)], sorted(SubSeq(l, 1, Len(l) - 1)))

(***************************************************************************)
(* class Transcript                                                        *)
(***************************************************************************)
\* PlusStep with b set to the exon's length instead of advanced by it
PlusStepOffsetReset(st, exon_st, exon_end) ==
    LET tr_exon_st == st.b
        tr_exon_end == st.b + exon_end - exon_st
    IN  [trans_starts |-> Append(st.trans_starts, tr_exon_st),
         trans_ends   |-> Append(st.trans_ends, tr_exon_end),
         b            |-> exon_end - exon_st]

\* one iteration of the "+" loop: append
PlusStep(st, exon_st, exon_end) ==
    LET tr_exon_st == st.b
        tr_exon_end == st.b + exon_end - exon_st
    IN  [trans_starts |-> Append(st.trans_starts, tr_exon_st),
         trans_ends   |-> Append(st.trans_ends, tr_exon_end),
         b            |-> st.b + exon_end - exon_st]

\* MinusStep with append in place of appendleft
MinusStepAppend(st, exon_st, exon_end) ==
    LET tr_exon_st == st.b
        tr_exon_end == st.b + exon_end - exon_st
    IN  [trans_starts |-> Append(st.trans_starts, tr_exon_st),
         trans_ends   |-> Append(st.trans_ends, tr_exon_end),
         b            |-> st.b + exon_end - exon_st]

\* one iteration of the "-" loop: appendleft
MinusStep(st, exon_st, exon_end) ==
    LET tr_exon_st == st.b
        tr_exon_end == st.b + exon_end - exon_st
    IN  [trans_starts |-> <<tr_exon_st>> \o st.trans_starts,
         trans_ends   |-> <<tr_exon_end>> \o st.trans_ends,
         b            |-> st.b + exon_end - exon_st]

RECURSIVE PlusLoop(_, _, _, _)
PlusLoop(st, starts, ends, index) ==
    IF index > Len(starts) THEN st
    ELSE PlusLoop(PlusStep(st, starts[index], ends[index]), starts, ends, index + 1)

RECURSIVE MinusLoop(_, _, _, _)
MinusLoop(st, starts, ends, index) ==
    IF index > Len(starts) THEN st
    ELSE MinusLoop(MinusStep(st, Reversed(starts)[index], Reversed(ends)[index]),
                   starts, ends, index + 1)

\* Transcript.get_transcriptomic_coordinates: the two deques
get_transcriptomic_coordinates(strand, genomic_starts, genomic_ends) ==
    LET st0 == [trans_starts |-> <<>>, trans_ends |-> <<>>, b |-> 0]
    IN  IF strand = "+" THEN PlusLoop(st0, genomic_starts, genomic_ends, 1)
        ELSE IF strand = "-" THEN MinusLoop(st0, genomic_starts, genomic_ends, 1)
        ELSE st0

\* StartStopStep with the "-" strand measuring from the exon's start
StartStopStepFromStart(st, strand, cdss, cdse, exon_start, exon_end, tr_exon_start) ==
    LET s1 == IF exon_start <= cdss /\ cdss <= exon_end
              THEN IF strand = "+"
                   THEN [st EXCEPT !.ctis = tr_exon_start + cdss - exon_start]
                   ELSE [st EXCEPT !.stop = tr_exon_start + cdss - exon_start]
              ELSE st
    IN  IF exon_start <= cdse /\ cdse <= exon_end
        THEN IF strand = "+"
             THEN [s1 EXCEPT !.stop = tr_exon_start + cdse - exon_start]
             ELSE [s1 EXCEPT !.ctis = tr_exon_start + cdse - exon_start]
        ELSE s1

\* StartStopStep with the "-" strand not swapping the roles of the CDS ends
StartStopStepUnswapped(st, strand, cdss, cdse, exon_start, exon_end, tr_exon_start) ==
    LET s1 == IF exon_start <= cdss /\ cdss <= exon_end
              THEN IF strand = "+"
                   THEN [st EXCEPT !.ctis = tr_exon_start + cdss - exon_start]
                   ELSE [st EXCEPT !.ctis = tr_exon_start + exon_end - cdss]
              ELSE st
    IN  IF exon_start <= cdse /\ cdse <= exon_end
        THEN IF strand = "+"
             THEN [s1 EXCEPT !.stop = tr_exon_start + cdse - exon_start]
             ELSE [s1 EXCEPT !.stop = tr_exon_start + exon_end - cdse]
        ELSE s1

\* one iteration of get_start_stop's loop over zip(starts, ends, trans_starts)
StartStopStep(st, strand, cdss, cdse, exon_start, exon_end, tr_exon_start) ==
    LET s1 == IF exon_start <= cdss /\ cdss <= exon_end
              THEN IF strand = "+"
                   THEN [st EXCEPT !.ctis = tr_exon_start + cdss - exon_start]
                   ELSE [st EXCEPT !.stop = tr_exon_start + exon_end - cdss]
              ELSE st
    IN  IF exon_start <= cdse /\ cdse <= exon_end
        THEN IF strand = "+"
             THEN [s1 EXCEPT !.stop = tr_exon_start + cdse - exon_start]
             ELSE [s1 EXCEPT !.ctis = tr_exon_start + exon_end - cdse]
        ELSE s1

RECURSIVE StartStopLoop(_, _, _, _, _, _, _, _)
StartStopLoop(st, strand, cdss, cdse, starts, ends, trans_starts, index) ==
    IF index > Len(starts) \/ index > Len(ends) \/ index > Len(trans_starts) THEN st
    ELSE StartStopLoop(StartStopStep(st, strand, cdss, cdse, starts[index],
                                     ends[index], trans_starts[index]),
                       strand, cdss, cdse, starts, ends, trans_starts, index + 1)

\* the sentinel of a non-coding transcript's codon positions
Sentinel == -1

\* Transcript.get_start_stop: type, ctis and stop
get_start_stop(strand, cdss, cdse, genomic_starts, genomic_ends, trans_starts) ==
    IF cdss = cdse
    THEN [ctis |-> Sentinel, stop |-> Sentinel, type |-> "non-coding"]
    ELSE StartStopLoop([ctis |-> "None", stop |-> "None", type |-> "coding"],
                       strand, cdss, cdse, genomic_starts, genomic_ends,
                       trans_starts, 1)

\* Transcript.__init__
Transcript(tx_id, chrom, strand, tx_start, tx_end, cds_start, cds_end, exon_starts, exon_ends, gene_id, uid) ==
    LET co == get_transcriptomic_coordinates(strand, exon_starts, exon_ends)
        ss == get_start_stop(strand, cds_start, cds_end, exon_starts, exon_ends,
                             co.trans_starts)
    IN  [id |-> tx_id, uid |-> uid, chrom |-> chrom, strand |-> strand,
         txs |-> tx_start, txe |-> tx_end, cdss |-> cds_start, cdse |-> cds_end,
         genomic_starts |-> exon_starts, genomic_ends |-> exon_ends,
         gid |-> gene_id,
         trans_starts |-> co.trans_starts, trans_ends |-> co.trans_ends,
         type |-> ss.type, ctis |-> ss.ctis, stop |-> ss.stop]

\* Transcript.__len__: sorted(self.trans_ends, reverse=True)[0]
TxLen(tx) == Reversed(sorted(tx.trans_ends))[1]

\* build_transcript: a Transcript from a line of the table array
build_transcript(array_line) ==
    Transcript(array_line[2], array_line[3], array_line[4], array_line[5],
               array_line[6], array_line[7], array_line[8], array_line[9],
               array_line[10], array_line[11], array_line[1])

(***************************************************************************)
(* read_table_into_array                                                   *)
(***************************************************************************)
\* the line of the table array for a line of the file
ArrayLine(id_counter, split_line) ==
    <<id_counter, split_line[1], split_line[2], split_line[3], split_line[4],
      split_line[5], split_line[6], split_line[7], split_line[9], split_line[10],
      split_line[12]>>

\* the loop over the file: the selected transcripts, or all when none is
\* selected, numbered from 1
RECURSIVE read_table_into_array(_, _)
read_table_into_array(lines, selected_transcripts) ==
    IF lines = <<>> THEN <<>>
    ELSE LET split_line == lines[Len(lines)]
             before == read_table_into_array(SubSeq(lines, 1, Len(lines) - 1),
                                             selected_transcripts)
         IN  IF selected_transcripts = {} \/ split_line[1] \in selected_transcripts
             THEN Append(before, ArrayLine(Len(before) + 1, split_line))
             ELSE before

(***************************************************************************)
(* build_transcriptome                                                     *)
(***************************************************************************)
\* keydict, as positions of a line
keydict(key) == IF key = "uid" THEN 1 ELSE IF key = "gid" THEN 11 ELSE 2

\* the dictionary is a list of [key, txs] in insertion order
KeysOf(transcripts) == {transcripts[k].key : k \in 1..Len(transcripts)}

\* one iteration of build_transcriptome's loop over table_array
AddLine(transcripts, line, key) ==
    IF line[keydict(key)] \notin KeysOf(transcripts)
    THEN Append(transcripts, [key |-> line[keydict(key)], txs |-> <<build_transcript(line)>>])
    ELSE [k \in 1..Len(transcripts) |->
            IF transcripts[k].key = line[keydict(key)]
            THEN [transcripts[k] EXCEPT !.txs = Append(@, build_transcript(line))]
            ELSE transcripts[k]]

\* every Transcript of the dictionary, in iteration order
RECURSIVE AllTx(_)
AllTx(transcripts) ==
    IF transcripts = <<>> THEN <<>>
    ELSE Head(transcripts).txs \o AllTx(Tail(transcripts))

(***************************************************************************)
(* get_parameters                                                          *)
(***************************************************************************)
\* chromosome names of more than ChromLenLimit characters are not summarized
ChromLenLimit == 5

\* the "coding" test of get_parameters
IsCodingRow(tx) == tx.ctis > 0

\* the row of one transcript
ParameterRow(tx) ==
    LET starts == sorted(tx.trans_starts)
        spliced == Len(starts) > 1
    IN  [Tx_ID  |-> tx.id,
         ATG    |-> IF IsCodingRow(tx) THEN tx.ctis ELSE Sentinel,
         Stop   |-> IF IsCodingRow(tx) THEN tx.stop ELSE Sentinel,
         Length |-> TxLen(tx),
         FirstSpliceSite |-> IF spliced THEN starts[2] ELSE Sentinel,
         LastSpliceSite  |-> IF spliced THEN starts[Len(starts)] ELSE Sentinel,
         UID    |-> tx.uid]

RECURSIVE ParameterRows(_)
ParameterRows(txs) ==
    IF txs = <<>> THEN <<>>
    ELSE IF Len(Head(txs).chrom) <= ChromLenLimit
         THEN <<ParameterRow(Head(txs))>> \o ParameterRows(Tail(txs))
         ELSE ParameterRows(Tail(txs))

get_parameters(transcripts) == ParameterRows(AllTx(transcripts))

(***************************************************************************)
(* gen2tr                                                                  *)
(***************************************************************************)
\* the key lines of one transcript: one per exon
ExonKeyLines(tx) ==
    [k \in 1..Len(tx.genomic_starts) |->
        [chrom |-> tx.chrom, exon_start |-> tx.genomic_starts[k],
         exon_end |-> tx.genomic_ends[k], strand |-> tx.strand, uid |-> tx.uid,
         tr_exon_st |-> tx.trans_starts[k], tr_exon_end |-> tx.trans_ends[k]]]

\* IsWritten without the test for duplicates
IsWrittenAnySize(group) == Len(group.txs) >= 1

\* the groups whose exons are written to the key file
IsWritten(group) == Len(group.txs) = 1

RECURSIVE KeyLinesOf(_)
KeyLinesOf(txs) ==
    IF txs = <<>> THEN <<>>
    ELSE ExonKeyLines(Head(txs)) \o KeyLinesOf(Tail(txs))

RECURSIVE KeyBed(_)
KeyBed(transcripts) ==
    IF transcripts = <<>> THEN <<>>
    ELSE (IF IsWritten(Head(transcripts)) THEN KeyLinesOf(Head(transcripts).txs) ELSE <<>>)
         \o KeyBed(Tail(transcripts))

Min2(a, b) == IF a <= b THEN a ELSE b

Max2(a, b) == IF a >= b THEN a ELSE b

\* bedtools intersect -a bedfile -b key -wo, for one peak of the bed file:
\* one line per key line that shares at least one base with the peak,
\* with the number of shared bases last
RECURSIVE IntersectWo(_, _)
IntersectWo(peak, key) ==
    IF key = <<>> THEN <<>>
    ELSE LET e == Head(key)
             overlap == Min2(peak.p_end, e.exon_end) - Max2(peak.p_start, e.exon_start)
         IN  (IF peak.chrom = e.chrom /\ overlap > 0
              THEN <<[p_start |-> peak.p_start, p_end |-> peak.p_end,
                      peak_id |-> peak.peak_id, ex_st |-> e.exon_start,
                      ex_end |-> e.exon_end, strand |-> e.strand, uid |-> e.uid,
                      tr_exon_start |-> e.tr_exon_st, tr_exon_end |-> e.tr_exon_end,
                      overlap |-> overlap]>>
              ELSE <<>>) \o IntersectWo(peak, Tail(key))

\* Segment with the "-" strand handled as the "+" strand is
SegmentIgnoringStrand(l) ==
    IF l.strand = "+" \/ l.strand = "-"
    THEN IF l.p_start <= l.ex_st
         THEN <<[uid |-> l.uid, start |-> l.tr_exon_start,
                 end |-> l.tr_exon_start + l.overlap, peak_id |-> l.peak_id]>>
         ELSE LET gap == l.p_start - l.ex_st
              IN  <<[uid |-> l.uid, start |-> l.tr_exon_start + gap,
                     end |-> l.tr_exon_start + gap + l.overlap, peak_id |-> l.peak_id]>>
    ELSE <<>>

\* the segment gen2tr prints for one line of the intersection
Segment(l) ==
    IF l.strand = "+"
    THEN IF l.p_start <= l.ex_st
         THEN <<[uid |-> l.uid, start |-> l.tr_exon_start,
                 end |-> l.tr_exon_start + l.overlap, peak_id |-> l.peak_id]>>
         ELSE LET gap == l.p_start - l.ex_st
              IN  <<[uid |-> l.uid, start |-> l.tr_exon_start + gap,
                     end |-> l.tr_exon_start + gap + l.overlap, peak_id |-> l.peak_id]>>
    ELSE IF l.strand = "-"
    THEN IF l.p_end >= l.ex_end
         THEN <<[uid |-> l.uid, start |-> l.tr_exon_start,
                 end |-> l.tr_exon_start + l.overlap, peak_id |-> l.peak_id]>>
         ELSE LET gap == l.ex_end - l.p_end
              IN  <<[uid |-> l.uid, start |-> l.tr_exon_start + gap,
                     end |-> l.tr_exon_start + gap + l.overlap, peak_id |-> l.peak_id]>>
    ELSE <<>>

(***************************************************************************)
(* choose_selected_cufflinks                                               *)
(***************************************************************************)
\* isoform_gene_dict: tx id -> (gene, coding), a later line replacing an
\* earlier; the flag is 0 when split_line[7] == split_line[6]
RECURSIVE isoform_gene_dict(_)
isoform_gene_dict(lines) ==
    IF lines = <<>> THEN <<>>
    ELSE LET split_line == lines[Len(lines)]
             before == isoform_gene_dict(SubSeq(lines, 1, Len(lines) - 1))
         IN  IF split_line[8] = split_line[7]
             THEN (split_line[1] :> [gene |-> split_line[12], coding |-> 0]) @@ before
             ELSE (split_line[1] :> [gene |-> split_line[12], coding |-> 1]) @@ before

\* more than UnmatchedLimit unmatched isoforms end the run
UnmatchedLimit == 5

\* Replaces with the length test not restricted to equal expression values
ReplacesLonger(fpkm, txlength, coding, incumbent) ==
    \/ fpkm > incumbent.fpkm
    \/ fpkm = incumbent.fpkm /\ coding = 1 /\ incumbent.coding = 0
    \/ txlength > incumbent.txlength

\* whether the record read replaces the incumbent of its gene
Replaces(fpkm, txlength, coding, incumbent) ==
    \/ fpkm > incumbent.fpkm
    \/ fpkm = incumbent.fpkm /\ coding = 1 /\ incumbent.coding = 0
    \/ fpkm = incumbent.fpkm /\ txlength > incumbent.txlength

\* the loop body for an isoform of gene_dict
UpdateIsoDict(d, gd, rec) ==
    LET gene == gd[rec.isoform].gene
        coding == gd[rec.isoform].coding
        new == [isoform |-> rec.isoform, fpkm |-> rec.fpkm,
                txlength |-> rec.txlength, coding |-> coding]
    IN  IF gene \in DOMAIN d
        THEN IF Replaces(rec.fpkm, rec.txlength, coding, d[gene])
             THEN [d EXCEPT ![gene] = new]
             ELSE d
        ELSE (gene :> new) @@ d

\* the unmatched branch: the count after this isoform
CountUnmatched(count) == count + 1

\* TooManyUnmatched ending the run at the limit itself
TooManyUnmatchedAtLimit(count) == count >= UnmatchedLimit

\* whether the run ends at this count
TooManyUnmatched(count) == count > UnmatchedLimit

\* the loop over the matched records of a file, from dictionary d
RECURSIVE FoldMatched(_, _, _)
FoldMatched(d, gd, recs) ==
    IF recs = <<>> THEN d
    ELSE FoldMatched(UpdateIsoDict(d, gd, Head(recs)), gd, Tail(recs))

\* the set returned from the dictionary
ReturnedSet(d) == {d[g].isoform : g \in DOMAIN d}

(***************************************************************************)
(* Inputs.                                                                 *)
(***************************************************************************)
Chroms == {<<"c", "h", "r", "1">>, <<"c", "h", "r", "U", "n", "_", "1">>}

Strands == {"+", "-"}

\* ascending, non-overlapping exons: an even number of distinct coordinates
ExonLayouts ==
    {Ascending(S) : S \in {T \in SUBSET (0..MaxCoord) :
        Cardinality(T) % 2 = 0 /\ Cardinality(T) >= 2 /\ Cardinality(T) <= 2 * MaxExons}}

StartsOf(layout) == [k \in 1..(Len(layout) \div 2) |-> layout[2 * k - 1]]

EndsOf(layout) == [k \in 1..(Len(layout) \div 2) |-> layout[2 * k]]

InExon(g, layout) ==
    \E k \in 1..(Len(layout) \div 2) : layout[2 * k - 1] <= g /\ g <= layout[2 * k]

\* CDS boundaries lie in exons; equal boundaries mean non-coding
CdsOf(layout) ==
    {cds \in (0..MaxCoord) \X (0..MaxCoord) :
        cds[1] <= cds[2] /\ InExon(cds[1], layout) /\ InExon(cds[2], layout)}

\* a line of the table file
FileLine(name, chrom, strand, layout, cds, name2) ==
    <<name, chrom, strand, layout[1], layout[Len(layout)], cds[1], cds[2],
      Len(layout) \div 2, StartsOf(layout), EndsOf(layout), 0, name2>>

FileLines ==
    UNION {{FileLine("i1", chrom, strand, layout, cds, "g1") :
                chrom \in Chroms, strand \in Strands, cds \in CdsOf(layout)} :
           layout \in ExonLayouts}

\* the peaks of the bed file lie on chr1
Peaks ==
    {[chrom |-> <<"c", "h", "r", "1">>, p_start |-> a, p_end |-> b, peak_id |-> "p1"] :
        a \in 0..MaxCoord, b \in 0..MaxCoord}

Isoforms == {"i1", "i2", "i3"}

FpkmValues == {1, 2}

TxLengths == {1, 2}

\* the expression records of isoforms of the table, and one unknown to it
ExpressionRecords ==
    {[isoform |-> i, fpkm |-> f, txlength |-> n] :
        i \in Isoforms, f \in FpkmValues, n \in TxLengths}
    \cup {[isoform |-> "x1", fpkm |-> 1, txlength |-> 1]}

\* annotation tables of two-exon transcripts: i1 of gene g1, coding, its CDS
\* ending at 4 or at 2; i2 of g1, non-coding, its empty CDS at 2 or at 6; i3
\* of g2, coding
AnnotationTables ==
    {<<FileLine("i1", <<"c", "h", "r", "1">>, "+", <<0, 2, 3, 6>>, <<1, e1>>, "g1"),
       FileLine("i2", <<"c", "h", "r", "1">>, "+", <<0, 2, 3, 6>>, <<e2, e2>>, "g1"),
       FileLine("i3", <<"c", "h", "r", "1">>, "-", <<0, 2, 3, 6>>, <<1, 4>>, "g2")>> :
        e1 \in {4, 2}, e2 \in {2, 6}}

(***************************************************************************)
(* The transcript run: build_transcriptome(tb_array, 'txid'),              *)
(* get_parameters(tx_dict), gen2tr(bedfile, tx_dict).                      *)
(***************************************************************************)
Init ==
    /\ pc = "read_table"
    /\ table_file \in {<<l>> : l \in FileLines}
    /\ table_array = <<>>
    /\ tx_dict = <<>>
    /\ parameters = <<>>
    /\ temp_bed_key = <<>>
    /\ intersection = <<>>
    /\ temp_tr_bed = <<>>
    /\ pos = 0
    /\ gene_dict = <<>>
    /\ iso_dict = <<>>
    /\ c = 0
    /\ ret = {"i1"}
    /\ matched = <<>>
    /\ nUnmatched = 0

\* read_table_into_array(tablefile, chosen)
ReadTable ==
    /\ pc = "read_table"
    /\ table_array' = read_table_into_array(table_file, ret)
    /\ pc' = "build"
    /\ UNCHANGED <<table_file, tx_dict, parameters, temp_bed_key, intersection, temp_tr_bed, pos>>
    /\ UNCHANGED selVars

\* one iteration of build_transcriptome's loop
BuildLine ==
    /\ pc = "build"
    /\ pos < Len(table_array)
    /\ tx_dict' = AddLine(tx_dict, table_array[pos + 1], "txid")
    /\ pos' = pos + 1
    /\ UNCHANGED <<pc, table_file, table_array, parameters, temp_bed_key, intersection, temp_tr_bed>>
    /\ UNCHANGED selVars

\* get_parameters, once the dictionary is built
GetParameters ==
    /\ pc = "build"
    /\ pos = Len(table_array)
    /\ parameters' = get_parameters(tx_dict)
    /\ pc' = "gen2tr"
    /\ UNCHANGED <<table_file, table_array, tx_dict, temp_bed_key, intersection, temp_tr_bed, pos>>
    /\ UNCHANGED selVars

\* gen2tr: the key file
WriteKeyBed ==
    /\ pc = "gen2tr"
    /\ temp_bed_key' = KeyBed(tx_dict)
    /\ pc' = "intersect"
    /\ UNCHANGED <<table_file, table_array, tx_dict, parameters, intersection, temp_tr_bed, pos>>
    /\ UNCHANGED selVars

\* gen2tr: bedtools intersect of the bed file's peak with the key file
Intersect ==
    /\ pc = "intersect"
    /\ \E peak \in {p \in Peaks : p.p_start < p.p_end} :
          intersection' = IntersectWo(peak, temp_bed_key)
    /\ pc' = "remap"
    /\ pos' = 0
    /\ UNCHANGED <<table_file, table_array, tx_dict, parameters, temp_bed_key, temp_tr_bed>>
    /\ UNCHANGED selVars

\* gen2tr: one iteration of the loop over the intersection
RemapLine ==
    /\ pc = "remap"
    /\ pos < Len(intersection)
    /\ temp_tr_bed' = temp_tr_bed \o Segment(intersection[pos + 1])
    /\ pos' = pos + 1
    /\ UNCHANGED <<pc, table_file, table_array, tx_dict, parameters, temp_bed_key, intersection>>
    /\ UNCHANGED selVars

Next == ReadTable \/ BuildLine \/ GetParameters \/ WriteKeyBed \/ Intersect \/ RemapLine

Spec == Init /\ [][Next]_vars

(***************************************************************************)
(* The selection run: choose_selected_cufflinks(expfile, tablefile).       *)
(***************************************************************************)
InitSel ==
    /\ pc = "start"
    /\ table_file \in AnnotationTables
    /\ table_array = <<>>
    /\ tx_dict = <<>>
    /\ parameters = <<>>
    /\ temp_bed_key = <<>>
    /\ intersection = <<>>
    /\ temp_tr_bed = <<>>
    /\ pos = 0
    /\ gene_dict = <<>>
    /\ iso_dict = <<>>
    /\ c = 0
    /\ ret = {}
    /\ matched = <<>>
    /\ nUnmatched = 0

\* gene_dict = isoform_gene_dict(table_file)
BuildGeneDict ==
    /\ pc = "start"
    /\ gene_dict' = isoform_gene_dict(table_file)
    /\ pc' = "select"
    /\ UNCHANGED <<iso_dict, c, ret, matched, nUnmatched>>
    /\ UNCHANGED txVars

\* one iteration of the loop over the expression file
ProcessLine ==
    /\ pc = "select"
    /\ \E rec \in ExpressionRecords :
          IF rec.isoform \in DOMAIN gene_dict
          THEN /\ Len(matched) < MaxMatched
               /\ iso_dict' = UpdateIsoDict(iso_dict, gene_dict, rec)
               /\ matched' = Append(matched, rec)
               /\ UNCHANGED <<pc, c, nUnmatched>>
          ELSE /\ c' = CountUnmatched(c)
               /\ nUnmatched' = nUnmatched + 1
               /\ pc' = IF TooManyUnmatched(c') THEN "aborted" ELSE pc
               /\ UNCHANGED <<iso_dict, matched>>
    /\ UNCHANGED <<gene_dict, ret>>
    /\ UNCHANGED txVars

\* the end of the expression file: the set of chosen isoforms is returned
EndOfFile ==
    /\ pc = "select"
    /\ ret' = ReturnedSet(iso_dict)
    /\ pc' = "returned"
    /\ UNCHANGED <<gene_dict, iso_dict, c, matched, nUnmatched>>
    /\ UNCHANGED txVars

NextSel == BuildGeneDict \/ ProcessLine \/ EndOfFile

SpecSel == InitSel /\ [][NextSel]_vars

(***************************************************************************)
(* Properties of the transcript run.                                       *)
(***************************************************************************)
\* the transcripts built so far
Built == Range(AllTx(tx_dict))

\* the line of the table array a transcript was built from
LineOf(tx) == CHOOSE l \in Range(table_array) : l[1] = tx.uid

RECURSIVE SumOfLengths(_, _)
SumOfLengths(starts, ends) ==
    IF starts = <<>> THEN 0
    ELSE (Head(ends) - Head(starts)) + SumOfLengths(Tail(starts), Tail(ends))

\* C1: the transcript-local exon intervals [trans_starts[i], trans_ends[i]) of
\* every built transcript, on either strand, tile [0, len(transcript)): they are
\* pairwise disjoint, leave no position uncovered, start at 0, and the largest
\* end, len(transcript), is the sum of the genomic exon lengths.
CoordinateCoverage ==
    \A tx \in Built :
        LET n == Len(tx.genomic_starts)
            ts == tx.trans_starts
            te == tx.trans_ends
        IN  /\ Len(ts) = n /\ Len(te) = n
            /\ \A i \in 1..n : 0 <= ts[i] /\ ts[i] < te[i]
            /\ \A i \in 1..n : \A j \in 1..n :
                  i # j => (te[i] <= ts[j] \/ te[j] <= ts[i])
            /\ \A q \in 0..(TxLen(tx) - 1) : \E i \in 1..n : ts[i] <= q /\ q < te[i]
            /\ SetMin(Range(ts)) = 0
            /\ TxLen(tx) = SetMax(Range(te))
            /\ TxLen(tx) = SumOfLengths(tx.genomic_starts, tx.genomic_ends)

\* a built "-" transcript of three exons, the first longer than the others
CoordinateCoverageWitness ==
    \E tx \in Built :
        /\ tx.strand = "-"
        /\ Len(tx.genomic_starts) = 3
        /\ tx.genomic_ends[1] - tx.genomic_starts[1] > 1

\* C2: on either strand the transcript-local exon at index i is as long as the
\* genomic exon at index i, and the transcript-local sequences have as many
\* entries as the genomic exon list.
IndexAlignment ==
    \A tx \in Built :
        /\ Len(tx.trans_starts) = Len(tx.genomic_starts)
        /\ Len(tx.trans_ends) = Len(tx.genomic_ends)
        /\ \A i \in 1..Len(tx.genomic_starts) :
              tx.trans_ends[i] - tx.trans_starts[i]
                  = tx.genomic_ends[i] - tx.genomic_starts[i]

\* a built "-" transcript whose first and last exons differ in length
IndexAlignmentWitness ==
    \E tx \in Built :
        LET n == Len(tx.genomic_starts)
        IN  /\ tx.strand = "-"
            /\ n >= 2
            /\ tx.genomic_ends[1] - tx.genomic_starts[1]
                  # tx.genomic_ends[n] - tx.genomic_starts[n]

\* the mirror image of a line: exon order reversed, g replaced by MaxCoord - g,
\* CDS boundaries mirrored and swapped, strand flipped
MirrorSeq(l) == Reversed([k \in 1..Len(l) |-> MaxCoord - l[k]])

Mirror(line) ==
    <<line[1], line[2], line[3], IF line[4] = "+" THEN "-" ELSE "+",
      MaxCoord - line[6], MaxCoord - line[5], MaxCoord - line[8], MaxCoord - line[7],
      MirrorSeq(line[10]), MirrorSeq(line[9]), line[11]>>

\* a list of a transcript in biological 5'->3' order
Biological(tx, l) == IF tx.strand = "+" THEN l ELSE Reversed(l)

\* C3: a built transcript and the transcript of its mirror image have the same
\* transcript-local exon intervals read 5'->3', the same length and the same
\* start-codon and stop-codon positions.
StrandSymmetry ==
    \A tx \in Built :
        LET m == build_transcript(Mirror(LineOf(tx)))
        IN  /\ Biological(m, m.trans_starts) = Biological(tx, tx.trans_starts)
            /\ Biological(m, m.trans_ends) = Biological(tx, tx.trans_ends)
            /\ TxLen(m) = TxLen(tx)
            /\ m.ctis = tx.ctis
            /\ m.stop = tx.stop

\* a built "+" coding transcript of several unequal exons whose CDS boundaries
\* lie in different exons
StrandSymmetryWitness ==
    \E tx \in Built :
        /\ tx.strand = "+"
        /\ Len(tx.genomic_starts) >= 2
        /\ tx.genomic_ends[1] - tx.genomic_starts[1]
              # tx.genomic_ends[2] - tx.genomic_starts[2]
        /\ tx.cdss < tx.genomic_ends[1]
        /\ tx.cdse > tx.genomic_starts[2]

\* the documented example: exons (100,150) and (300,320), CDS 120..310
ExampleTx(strand) ==
    Transcript("ex", <<"c", "h", "r", "1">>, strand, 100, 320, 120, 310, <<100, 300>>, <<150, 320>>, "g", 1)

\* C7: a built transcript with CDS-start = CDS-end is non-coding with both codon
\* positions -1; otherwise it is coding and, with CDS-start in exon i and CDS-end
\* in exon j, on "+" start = local-start[i] + (CDS-start - genomic-start[i]) and
\* stop = local-start[j] + (CDS-end - genomic-start[j]); on "-" stop =
\* local-start[i] + (genomic-end[i] - CDS-start) and start = local-start[j] +
\* (genomic-end[j] - CDS-end). The documented example gives (20,60) on "+", (10,50) on "-".
CodingLandmarks ==
    /\ \A tx \in Built :
          LET n == Len(tx.genomic_starts)
              gs == tx.genomic_starts
              ge == tx.genomic_ends
              ts == tx.trans_starts
          IN  IF tx.cdss = tx.cdse
              THEN tx.type = "non-coding" /\ tx.ctis = -1 /\ tx.stop = -1
              ELSE /\ tx.type = "coding"
                   /\ \A i \in 1..n : \A j \in 1..n :
                         (gs[i] <= tx.cdss /\ tx.cdss <= ge[i]
                          /\ gs[j] <= tx.cdse /\ tx.cdse <= ge[j])
                         => IF tx.strand = "+"
                            THEN /\ tx.ctis = ts[i] + (tx.cdss - gs[i])
                                 /\ tx.stop = ts[j] + (tx.cdse - gs[j])
                            ELSE /\ tx.stop = ts[i] + (ge[i] - tx.cdss)
                                 /\ tx.ctis = ts[j] + (ge[j] - tx.cdse)
    /\ (pc = "build" /\ Built # {}) =>
          /\ ExampleTx("+").ctis = 20 /\ ExampleTx("+").stop = 60
          /\ ExampleTx("-").ctis = 10 /\ ExampleTx("-").stop = 50

\* a built "-" coding transcript whose CDS boundaries lie in different exons
CodingLandmarksWitness ==
    \E tx \in Built :
        /\ tx.strand = "-"
        /\ tx.type = "coding"
        /\ Len(tx.genomic_starts) = 3
        /\ tx.cdss < tx.genomic_ends[1]
        /\ tx.cdse > tx.genomic_starts[3]

\* the documented example: "+" exon (1000,1100) at local start 200, peak (1050,1200)
ExampleOverlap ==
    [p_start |-> 1050, p_end |-> 1200, peak_id |-> "p1", ex_st |-> 1000,
     ex_end |-> 1100, strand |-> "+", uid |-> 1, tr_exon_start |-> 200,
     tr_exon_end |-> 300, overlap |-> 50]

\* C8: for every line of the intersection whose overlap is min(peak end, exon
\* end) - max(peak start, exon start) > 0, the segment written is the image of
\* the genomic overlap under the exon's own map (on "+" g -> local-start + g -
\* exon-start, on "-" g -> local-start + exon-end - g): it is as long as the
\* overlap and lies in [local-start, local-start + exon length]. The example
\* gives (250,300).
PeakRemapAffine ==
    /\ Len(temp_tr_bed) = (IF pc = "remap" THEN pos ELSE 0)
    /\ \A k \in 1..Len(temp_tr_bed) :
          LET l == intersection[k]
              seg == temp_tr_bed[k]
              lo == Max2(l.p_start, l.ex_st)
              hi == Min2(l.p_end, l.ex_end)
          IN  (l.overlap = hi - lo /\ l.overlap > 0) =>
                 /\ seg.uid = l.uid /\ seg.peak_id = l.peak_id
                 /\ l.strand = "+" =>
                       /\ seg.start = l.tr_exon_start + lo - l.ex_st
                       /\ seg.end = l.tr_exon_start + hi - l.ex_st
                 /\ l.strand = "-" =>
                       /\ seg.start = l.tr_exon_start + l.ex_end - hi
                       /\ seg.end = l.tr_exon_start + l.ex_end - lo
                 /\ seg.end - seg.start = l.overlap
                 /\ l.tr_exon_start <= seg.start
                 /\ seg.end <= l.tr_exon_start + (l.ex_end - l.ex_st)
    /\ (pc = "remap" /\ pos = 1) =>
          Segment(ExampleOverlap)
              = <<[uid |-> 1, start |-> 250, end |-> 300, peak_id |-> "p1"]>>

\* a "-" exon, not the first transcribed, with the peak strictly inside it,
\* remapped
PeakRemapAffineWitness ==
    /\ pc = "remap"
    /\ \E k \in 1..Len(temp_tr_bed) :
          LET l == intersection[k]
          IN  /\ l.strand = "-"
              /\ l.tr_exon_start > 0
              /\ l.ex_st < l.p_start
              /\ l.p_end < l.ex_end

\* C10: the row of every summarized transcript carries the transcript's
\* start-codon and stop-codon positions when the transcript is coding, and the
\* sentinel -1 in both only when it is non-coding.
ParameterCodonFields ==
    \A tx \in Built :
        \A k \in 1..Len(parameters) :
            parameters[k].UID = tx.uid =>
                /\ tx.type = "coding" =>
                      parameters[k].ATG = tx.ctis /\ parameters[k].Stop = tx.stop
                /\ (parameters[k].ATG = -1 /\ parameters[k].Stop = -1) =>
                      tx.type = "non-coding"

(***************************************************************************)
(* Properties of the selection run.                                        *)
(***************************************************************************)
GeneOf(rec) == gene_dict[rec.isoform].gene

CodingOf(rec) == gene_dict[rec.isoform].coding

\* the genes of the matched records read so far
GenesSeen == {GeneOf(matched[k]) : k \in 1..Len(matched)}

\* the matched records of gene g read so far
RecordsOf(g) == {matched[k] : k \in {n \in 1..Len(matched) : GeneOf(matched[n]) = g}}

\* those of the highest expression value
TopOf(g) == {r \in RecordsOf(g) : \A q \in RecordsOf(g) : q.fpkm <= r.fpkm}

\* the orders in which n records can be read
ReadOrders(n) == {f \in [1..n -> 1..n] : \A i \in 1..n : \E j \in 1..n : f[j] = i}

\* whether an isoform of the table file is coding: CDS start and end differ
IsCoding(isoform) ==
    \E k \in 1..Len(table_file) :
        table_file[k][1] = isoform /\ table_file[k][6] # table_file[k][7]

\* what the tie-break is to look at
Tuple(inc) == <<inc.fpkm, IsCoding(inc.isoform), inc.txlength>>

\* C4: for every gene, every order of the same matched records gives a winner
\* of the same expression value, coding flag and length.
TieBreakDeterminism ==
    \A f \in ReadOrders(Len(matched)) :
        LET other == FoldMatched(<<>>, gene_dict, [k \in 1..Len(matched) |-> matched[f[k]]])
        IN  \A g \in DOMAIN iso_dict : Tuple(other[g]) = Tuple(iso_dict[g])

\* C5: when the records of highest expression value of a gene include a coding
\* isoform, the incumbent is coding; length decides only among the records of
\* highest expression value with the incumbent's coding flag.
CodingBeatsLength ==
    \A g \in DOMAIN iso_dict :
        /\ (\E r \in TopOf(g) : IsCoding(r.isoform)) => IsCoding(iso_dict[g].isoform)
        /\ \A r \in TopOf(g) :
              IsCoding(r.isoform) = IsCoding(iso_dict[g].isoform)
                  => r.txlength <= iso_dict[g].txlength

\* C6: an unmatched isoform is counted and changes no incumbent; the run is
\* aborted, returning nothing, exactly when more than 5 isoforms were unmatched;
\* a run that returns had at most 5 and returns what the matched records alone
\* give.
UnmatchedThreshold ==
    /\ c = nUnmatched
    /\ nUnmatched <= UnmatchedLimit + 1
    /\ pc = "aborted" <=> nUnmatched > 5
    /\ pc = "aborted" => ret = {}
    /\ iso_dict = FoldMatched(<<>>, gene_dict, matched)
    /\ pc = "returned" =>
          /\ nUnmatched <= 5
          /\ ret = ReturnedSet(FoldMatched(<<>>, gene_dict, matched))

\* a run that returns a chosen isoform after exactly 5 unmatched isoforms
UnmatchedThresholdWitness ==
    /\ pc = "returned"
    /\ nUnmatched = 5
    /\ Len(matched) >= 2
    /\ ret # {}

\* C9: after every record there is one incumbent per gene seen among the matched
\* records, it is one of the gene's matched records and has their highest
\* expression value; the returned set holds exactly one isoform of each gene
\* seen and nothing else.
OneIncumbentPerGene ==
    /\ DOMAIN iso_dict = GenesSeen
    /\ \A g \in DOMAIN iso_dict :
          /\ \E r \in TopOf(g) :
                /\ iso_dict[g].isoform = r.isoform
                /\ iso_dict[g].fpkm = r.fpkm
                /\ iso_dict[g].txlength = r.txlength
                /\ iso_dict[g].coding = CodingOf(r)
    /\ pc = "returned" =>
          /\ \A g \in GenesSeen :
                Cardinality({i \in ret : i \in DOMAIN gene_dict /\ gene_dict[i].gene = g}) = 1
          /\ \A i \in ret : i \in DOMAIN gene_dict /\ gene_dict[i].gene \in GenesSeen
          /\ Cardinality(ret) = Cardinality(GenesSeen)

\* a run that returns the isoforms of two genes, the incumbent of one of them
\* having replaced a less expressed isoform read before it
OneIncumbentPerGeneWitness ==
    /\ pc = "returned"
    /\ Cardinality(ret) = 2
    /\ Len(matched) = 3
    /\ \E j \in 1..3 : \E k \in 1..3 :
          /\ j < k
          /\ GeneOf(matched[j]) = GeneOf(matched[k])
          /\ matched[j].fpkm < matched[k].fpkm
          /\ matched[j].isoform # matched[k].isoform

(***************************************************************************)
(* Order of the transcript-local coordinates.                              *)
(***************************************************************************)
\* C11, as stated: on either strand the transcript-local exon coordinates do
\* not decrease with the exon's index in the ascending genomic exon list.
LocalCoordinatesAscending ==
    \A tx \in Built :
        \A i \in 1..Len(tx.trans_starts) : \A j \in 1..Len(tx.trans_starts) :
            i < j => /\ tx.trans_starts[i] <= tx.trans_starts[j]
                     /\ tx.trans_ends[i] <= tx.trans_ends[j]

\* C11, amended: the transcript-local exon coordinates do not decrease with
\* the exon's index on the "+" strand and do not increase with it on the "-"
\* strand.
LocalCoordinatesMonotone ==
    \A tx \in Built :
        \A i \in 1..Len(tx.trans_starts) : \A j \in 1..Len(tx.trans_starts) :
            i < j =>
                /\ tx.strand = "+" => /\ tx.trans_starts[i] <= tx.trans_starts[j]
                                      /\ tx.trans_ends[i] <= tx.trans_ends[j]
                /\ tx.strand = "-" => /\ tx.trans_starts[i] >= tx.trans_starts[j]
                                      /\ tx.trans_ends[i] >= tx.trans_ends[j]

\* a built "-" transcript of three exons
LocalCoordinatesMonotoneWitness ==
    \E tx \in Built :
        /\ tx.strand = "-"
        /\ Len(tx.trans_starts) = 3
        /\ tx.trans_starts[1] > tx.trans_starts[3]

(***************************************************************************)
(* The run on a table file of several lines, some sharing a transcript id: *)
(* read_table_into_array(tablefile, chosen), build_transcriptome(tb_array, *)
(* 'txid'), get_parameters(tx_dict), gen2tr(bedfile, tx_dict).             *)
(***************************************************************************)
\* a table file has 1..MaxTableLines lines
MaxTableLines == 3

\* lines of two transcript ids, on chr1, either strand, of one or two exons
PipeLines ==
    {FileLine(name, <<"c", "h", "r", "1">>, strand, layout, <<layout[1], layout[2]>>, "g1") :
        name \in {"i1", "i2"}, strand \in Strands, layout \in {<<1, 3>>, <<0, 2, 4, 6>>}}

PipeTables == UNION {[1..n -> PipeLines] : n \in 1..MaxTableLines}

InitPipe ==
    /\ pc = "read_table"
    /\ ret \in {{"i1"}, {"i1", "i2"}}
    /\ table_file \in {t \in PipeTables : \E k \in 1..Len(t) : t[k][1] \in ret}
    /\ table_array = <<>>
    /\ tx_dict = <<>>
    /\ parameters = <<>>
    /\ temp_bed_key = <<>>
    /\ intersection = <<>>
    /\ temp_tr_bed = <<>>
    /\ pos = 0
    /\ gene_dict = <<>>
    /\ iso_dict = <<>>
    /\ c = 0
    /\ matched = <<>>
    /\ nUnmatched = 0

SpecPipe == InitPipe /\ [][Next]_vars

\* build_transcriptome(table_array, key): the loop over all lines
RECURSIVE build_transcriptome(_, _)
build_transcriptome(lines, key) ==
    IF lines = <<>> THEN <<>>
    ELSE AddLine(build_transcriptome(SubSeq(lines, 1, Len(lines) - 1), key),
                 lines[Len(lines)], key)

\* the key file has been written: gen2tr has taken its collection
KeyWritten == pc \in {"intersect", "remap"}

\* the transcripts of the table array with the transcript id of tx
SameId(tx) == {l \in Range(table_array) : l[2] = tx.id}

\* whether every exon of tx is a line of the key file
Offered(tx) ==
    \A k \in 1..Len(tx.genomic_starts) : ExonKeyLines(tx)[k] \in Range(temp_bed_key)

\* whether some line of the key file is of tx
InKeyFile(tx) == \E k \in 1..Len(temp_bed_key) : temp_bed_key[k].uid = tx.uid

\* C12, as stated: gen2tr's key file is that of a collection keyed by the
\* unique id, a transcript's exons are in it if and only if the transcript is
\* alone in its group of that collection, and no segment is of a transcript
\* of a larger group.
RemapUsesUidCollection ==
    KeyWritten =>
        LET by_uid == build_transcriptome(table_array, "uid")
        IN  /\ temp_bed_key = KeyBed(by_uid)
            /\ \A g \in 1..Len(by_uid) : \A tx \in Range(by_uid[g].txs) :
                  /\ Offered(tx) <=> Len(by_uid[g].txs) = 1
                  /\ Len(by_uid[g].txs) > 1 =>
                        \A k \in 1..Len(temp_tr_bed) : temp_tr_bed[k].uid # tx.uid

\* C12, amended: gen2tr is handed the collection keyed by transcript id that
\* get_parameters summarized; a transcript's exons are in the key file if and
\* only if no other transcript of the table array has its transcript id, and
\* no segment is of a transcript that shares its transcript id.
RemapUsesTxidCollection ==
    KeyWritten =>
        /\ \A g \in 1..Len(tx_dict) : \A tx \in Range(tx_dict[g].txs) :
              tx_dict[g].key = tx.id
        /\ {parameters[k].UID : k \in 1..Len(parameters)} = {tx.uid : tx \in Built}
        /\ \A tx \in Built :
              /\ Offered(tx) <=> Cardinality(SameId(tx)) = 1
              /\ InKeyFile(tx) <=> Cardinality(SameId(tx)) = 1
              /\ Cardinality(SameId(tx)) > 1 =>
                    \A k \in 1..Len(temp_tr_bed) : temp_tr_bed[k].uid # tx.uid

\* two transcripts share a transcript id and a third has its own; the peak
\* covers exons of all three, and a segment of the third has been written
RemapUsesTxidCollectionWitness ==
    /\ pc = "remap"
    /\ Len(table_array) = 3
    /\ \E tx \in Built : \E other \in Built :
          /\ Cardinality(SameId(tx)) = 2
          /\ Cardinality(SameId(other)) = 1
          /\ \E k \in 1..Len(temp_tr_bed) : temp_tr_bed[k].uid = other.uid
          /\ \E e \in 1..Len(tx.genomic_starts) :
                \E k \in 1..Len(intersection) :
                    /\ intersection[k].p_start < tx.genomic_ends[e]
                    /\ tx.genomic_starts[e] < intersection[k].p_end

====
